---- MODULE Spec2Model ----
(***************************************************************************)
(* Single-qubit gate composer of src/src/App.tsx (and its two variants):   *)
(* the composition triple (operations, currentState, compositeMatrix), the *)
(* undo/redo history log and the handlers addGate, reset, undo, redo and   *)
(* removeOperation; sharing a sequence by page address (shareState and the *)
(* effect that replays the gates parameter); the validation and the        *)
(* measurement functions of App.tsx and of the library part_000.           *)
(*                                                                         *)
(* Numbers.  Every matrix entry the program can produce is a product/sum   *)
(* of the registry entries 0, +-1, +-i, +-1/sqrt(2) and e^(+-i pi/4), so   *)
(* the real and imaginary parts live in the ring Z[sqrt 2, 1/2].  A real   *)
(* is the record [p, q, k] standing for (p + q*sqrt(2)) / 2^k, kept in     *)
(* lowest terms; arithmetic is exact (the IEEE rounding of the JavaScript  *)
(* doubles is not modelled, so a tolerance comparison is an equality).     *)
(***************************************************************************)
EXTENDS Integers, Sequences, FiniteSets, TLC

VARIABLES operations, currentState, compositeMatrix, history, historyIndex,
          historyLimit, calls, url, timers, twin

vars == <<operations, currentState, compositeMatrix, history, historyIndex,
          historyLimit, calls, url, timers, twin>>

progVars == <<operations, currentState, compositeMatrix, history, historyIndex,
              historyLimit>>

\* url: the characters of the gates parameter of the page address (empty
\* when there is none); timers: the gates of the setTimeout callbacks still
\* to run, in firing order; twin: a second session of the program
pageVars == <<url, timers, twin>>

(***************************************************************************)
(* Bounds of the model (not program constants).                            *)
(***************************************************************************)
\* Spec: a mutation is taken only while the log it leaves has <= MaxLog entries
MaxLog == 3
\* SpecUndoRedo: number of appends of the scripted session
MaxAppends == 3

(***************************************************************************)
(* Exact reals (p + q*sqrt 2) / 2^k                                        *)
(***************************************************************************)
RECURSIVE Pow2(_)
Pow2(n) == IF n = 0 THEN 1 ELSE 2 * Pow2(n - 1)

RECURSIVE RNorm(_, _, _)
RNorm(p, q, k) ==
  IF k > 0 /\ p % 2 = 0 /\ q % 2 = 0
  THEN RNorm(p \div 2, q \div 2, k - 1)
  ELSE [p |-> p, q |-> q, k |-> k]

RInt(n) == [p |-> n, q |-> 0, k |-> 0]

RMax(a, b) == IF a >= b THEN a ELSE b

RAdd(x, y) ==
  LET k == RMax(x.k, y.k)
  IN  RNorm(x.p * Pow2(k - x.k) + y.p * Pow2(k - y.k),
            x.q * Pow2(k - x.k) + y.q * Pow2(k - y.k), k)

RNeg(x) == [p |-> 0 - x.p, q |-> 0 - x.q, k |-> x.k]

RSub(x, y) == RAdd(x, RNeg(y))

RMul(x, y) ==
  RNorm(x.p * y.p + 2 * x.q * y.q, x.p * y.q + x.q * y.p, x.k + y.k)

\* 1/Math.sqrt(2) = Math.cos(Math.PI/4) = Math.sin(Math.PI/4) = sqrt(2)/2
SQRT2_INV == [p |-> 0, q |-> 1, k |-> 1]

(***************************************************************************)
(* class Complex                                                           *)
(***************************************************************************)
Complex(re, im) == [re |-> re, im |-> im]

CInt(a, b) == Complex(RInt(a), RInt(b))

\* mutant of multiply: the real part adds the product of the imaginary parts
multiplyPlus(a, b) ==
  Complex(RAdd(RMul(a.re, b.re), RMul(a.im, b.im)),
          RAdd(RMul(a.re, b.im), RMul(a.im, b.re)))

multiply(a, b) ==
  Complex(RSub(RMul(a.re, b.re), RMul(a.im, b.im)),
          RAdd(RMul(a.re, b.im), RMul(a.im, b.re)))

\* mutant of add: the imaginary part of the second number is left out
addRealOnly(a, b) == Complex(RAdd(a.re, b.re), a.im)

add(a, b) == Complex(RAdd(a.re, b.re), RAdd(a.im, b.im))

subtract(a, b) == Complex(RSub(a.re, b.re), RSub(a.im, b.im))

\* mutant of conjugate: the imaginary part keeps its sign
conjugateKeepsSign(a) == Complex(a.re, a.im)

conjugate(a) == Complex(a.re, RNeg(a.im))

\* magnitude() ** 2, i.e. re*re + im*im
magnitudeSquared(a) == RAdd(RMul(a.re, a.re), RMul(a.im, a.im))

(***************************************************************************)
(* Gate registry                                                           *)
(***************************************************************************)
GateNames == {"H", "X", "Y", "Z", "S", "T", "Sdg", "Tdg"}

GATES ==
  [g \in GateNames |->
    CASE g = "H" -> << <<Complex(SQRT2_INV, RInt(0)), Complex(SQRT2_INV, RInt(0))>>,
                       <<Complex(SQRT2_INV, RInt(0)), Complex(RNeg(SQRT2_INV), RInt(0))>> >>
      [] g = "X" -> << <<CInt(0, 0), CInt(1, 0)>>, <<CInt(1, 0), CInt(0, 0)>> >>
      [] g = "Y" -> << <<CInt(0, 0), CInt(0, -1)>>, <<CInt(0, 1), CInt(0, 0)>> >>
      [] g = "Z" -> << <<CInt(1, 0), CInt(0, 0)>>, <<CInt(0, 0), CInt(-1, 0)>> >>
      [] g = "S" -> << <<CInt(1, 0), CInt(0, 0)>>, <<CInt(0, 0), CInt(0, 1)>> >>
      [] g = "T" -> << <<CInt(1, 0), CInt(0, 0)>>,
                       <<CInt(0, 0), Complex(SQRT2_INV, SQRT2_INV)>> >>
      [] g = "Sdg" -> << <<CInt(1, 0), CInt(0, 0)>>, <<CInt(0, 0), CInt(0, -1)>> >>
      [] g = "Tdg" -> << <<CInt(1, 0), CInt(0, 0)>>,
                         <<CInt(0, 0), Complex(SQRT2_INV, RNeg(SQRT2_INV))>> >>]

(***************************************************************************)
(* Matrix operations (rows and columns are 1-based here, 0-based in the    *)
(* source)                                                                 *)
(***************************************************************************)
\* mutant of multiplyMatrices: the operands are exchanged (computes b*a)
multiplyMatricesSwapped(a, b) ==
  << << add(multiply(b[1][1], a[1][1]), multiply(b[1][2], a[2][1])),
        add(multiply(b[1][1], a[1][2]), multiply(b[1][2], a[2][2])) >>,
     << add(multiply(b[2][1], a[1][1]), multiply(b[2][2], a[2][1])),
        add(multiply(b[2][1], a[1][2]), multiply(b[2][2], a[2][2])) >> >>

multiplyMatrices(a, b) ==
  << << add(multiply(a[1][1], b[1][1]), multiply(a[1][2], b[2][1])),
        add(multiply(a[1][1], b[1][2]), multiply(a[1][2], b[2][2])) >>,
     << add(multiply(a[2][1], b[1][1]), multiply(a[2][2], b[2][1])),
        add(multiply(a[2][1], b[1][2]), multiply(a[2][2], b[2][2])) >> >>

\* mutant of applyMatrix: both components are taken from the first row
applyMatrixFirstRow(matrix, state) ==
  << add(multiply(matrix[1][1], state[1]), multiply(matrix[1][2], state[2])),
     add(multiply(matrix[1][1], state[1]), multiply(matrix[1][2], state[2])) >>

applyMatrix(matrix, state) ==
  << add(multiply(matrix[1][1], state[1]), multiply(matrix[1][2], state[2])),
     add(multiply(matrix[2][1], state[1]), multiply(matrix[2][2], state[2])) >>

getIdentityMatrix ==
  << <<CInt(1, 0), CInt(0, 0)>>, <<CInt(0, 0), CInt(1, 0)>> >>

\* [new Complex(1), new Complex(0)]
InitialVector == <<CInt(1, 0), CInt(0, 0)>>

(***************************************************************************)
(* Validation and measurement.  The numbers of the model are exact, so a   *)
(* comparison against the tolerance 1e-12 is a comparison against 0.  A    *)
(* quotient a / b of two numbers is kept as the pair [num, den]; 0 / 0,    *)
(* NaN in the source, is the pair with den zero.                           *)
(***************************************************************************)
isUnitary(matrix) ==
  LET conjugateTranspose ==
        << <<conjugate(matrix[1][1]), conjugate(matrix[2][1])>>,
           <<conjugate(matrix[1][2]), conjugate(matrix[2][2])>> >>
      product == multiplyMatrices(conjugateTranspose, matrix)
      identity == << <<CInt(1, 0), CInt(0, 0)>>, <<CInt(0, 0), CInt(1, 0)>> >>
  IN  \A i \in 1..2, j \in 1..2 :
        ~ (magnitudeSquared(subtract(product[i][j], identity[i][j])) # RInt(0))

isNormalized(state) ==
  LET norm == RAdd(magnitudeSquared(state[1]), magnitudeSquared(state[2]))
  IN  RSub(norm, RInt(1)) = RInt(0)

Quot(a, b) == [num |-> a, den |-> b]

\* a + b, a * b and a == b for quotients
QAdd(a, b) ==
  Quot(RAdd(RMul(a.num, b.den), RMul(b.num, a.den)), RMul(a.den, b.den))

QMul(a, b) == Quot(RMul(a.num, b.num), RMul(a.den, b.den))

QEq(a, b) ==
  /\ a.den # RInt(0)
  /\ b.den # RInt(0)
  /\ RMul(a.num, b.den) = RMul(b.num, a.den)

\* calculateProbabilities of part_001, also the mutant of
\* calculateProbabilities: the squared magnitudes as they are
calculateProbabilitiesRaw(state) ==
  LET prob0 == magnitudeSquared(state[1])
      prob1 == magnitudeSquared(state[2])
  IN  [prob0 |-> Quot(prob0, RInt(1)),
       prob1 |-> Quot(prob1, RInt(1)),
       normalizationFactor |-> RAdd(prob0, prob1)]

\* calculateProbabilities of App.tsx
calculateProbabilities(state) ==
  LET prob0 == magnitudeSquared(state[1])
      prob1 == magnitudeSquared(state[2])
      total == RAdd(prob0, prob1)
  IN  [prob0 |-> Quot(prob0, total),
       prob1 |-> Quot(prob1, total),
       normalizationFactor |-> total]

\* calculateProbabilities of part_000
calculateProbabilitiesFlag(state) ==
  LET prob0 == magnitudeSquared(state[1])
      prob1 == magnitudeSquared(state[2])
      total == RAdd(prob0, prob1)
  IN  [prob0 |-> Quot(prob0, total),
       prob1 |-> Quot(prob1, total),
       isNormalized |-> RSub(total, RInt(1)) = RInt(0)]

\* calculatePurity of part_000
calculatePurity(state) ==
  LET probs == calculateProbabilitiesFlag(state)
  IN  QAdd(QMul(probs.prob0, probs.prob0), QMul(probs.prob1, probs.prob1))

\* the Purity line of App.tsx:
\* probabilities.prob0 ** 2 + probabilities.prob1 ** 2
purityShown(probabilities) ==
  QAdd(QMul(probabilities.prob0, probabilities.prob0),
       QMul(probabilities.prob1, probabilities.prob1))

(***************************************************************************)
(* Entropy.  The probabilities met here are 0, 1/2 and 1.  A value of      *)
(* Math.log2 is kept to 14 decimals as the pair [hi, lo] standing for      *)
(* hi * 1e-5 + lo * 1e-14.                                                 *)
(***************************************************************************)
Fix(hi, lo) == [hi |-> hi, lo |-> lo]

FixAdd(x, y) == Fix(x.hi + y.hi, x.lo + y.lo)

FixNeg(x) == Fix(0 - x.hi, 0 - x.lo)

\* p * x for a probability p = n / 2^k
FixTimes(p, x) == Fix((p.p * x.hi) \div Pow2(p.k), (p.p * x.lo) \div Pow2(p.k))

\* the value of the quotient a / 1
ByOne(a) == a.num

\* Math.log2(p) for p = 1/2 and p = 1
log2(p) ==
  CASE p = RInt(1) -> Fix(0, 0)
    [] p = [p |-> 1, q |-> 0, k |-> 1] -> Fix(-100000, 0)

\* Math.log2(p + 1e-10) for p = 0, p = 1/2 and p = 1:
\* -33.21928094887362, -0.99999999971146 and 0.00000000014427
log2Shifted(p) ==
  CASE p = RInt(0) -> Fix(-3321928, -94887362)
    [] p = [p |-> 1, q |-> 0, k |-> 1] -> Fix(-100000, 28854)
    [] p = RInt(1) -> Fix(0, 14427)

\* calculateEntropy of part_000; a probability is never negative, so
\* probs.prob0 > 1e-15 is probs.prob0 # 0 here
calculateEntropy(state) ==
  LET probs == calculateProbabilitiesFlag(state)
      prob0 == ByOne(probs.prob0)
      prob1 == ByOne(probs.prob1)
      entropy0 == Fix(0, 0)
      entropy1 == IF prob0 # RInt(0)
                  THEN FixAdd(entropy0, FixNeg(FixTimes(prob0, log2(prob0))))
                  ELSE entropy0
  IN  IF prob1 # RInt(0)
      THEN FixAdd(entropy1, FixNeg(FixTimes(prob1, log2(prob1))))
      ELSE entropy1

\* the Entropy line of App.tsx:
\* -(probabilities.prob0 * Math.log2(probabilities.prob0 + 1e-10) +
\*   probabilities.prob1 * Math.log2(probabilities.prob1 + 1e-10))
entropyShown(probabilities) ==
  LET prob0 == ByOne(probabilities.prob0)
      prob1 == ByOne(probabilities.prob1)
  IN  FixNeg(FixAdd(FixTimes(prob0, log2Shifted(prob0)),
                    FixTimes(prob1, log2Shifted(prob1))))

(***************************************************************************)
(* Program state                                                           *)
(***************************************************************************)
\* if (newHistory.length > 100) newHistory.shift()      (App.tsx)
HistoryLimitApp == 100
\* if (newHistory.length > 50) newHistory.shift()       (App copy copy.tsx)
HistoryLimitCopy == 50

\* interface GateOperation {id, gate, timestamp}; the timestamp is Date.now()
\* again, is only exported, and is carried by the identifier here
GateOperation(id, gate) == [id |-> id, gate |-> gate]

\* interface HistoryState
HistoryState(ops, state, matrix) ==
  [operations |-> ops, currentState |-> state, compositeMatrix |-> matrix]

\* The composition triple of the current render
Triple == HistoryState(operations, currentState, compositeMatrix)

InitialTriple == HistoryState(<<>>, InitialVector, getIdentityMatrix)

IdsOf(ops) == {ops[i].id : i \in 1..Len(ops)}

\* id: Date.now().toString() + Math.random().toString(36).substr(2, 9)
\* a string no operation of the sequence carries; only equality of
\* identifiers is ever used, so the least unused number stands for it
NewId(ops) == CHOOSE n \in 1..(Len(ops) + 1) :
                 /\ n \notin IdsOf(ops)
                 /\ \A m \in 1..(n - 1) : m \in IdsOf(ops)

\* mutant of InitProgram: the log starts with a snapshot of the initial
\* triple
InitProgramRecorded ==
  /\ operations = <<>>
  /\ currentState = InitialVector
  /\ compositeMatrix = getIdentityMatrix
  /\ history = <<InitialTriple>>
  /\ historyIndex = 0

\* useState initial values of App()
InitProgram ==
  /\ operations = <<>>
  /\ currentState = InitialVector
  /\ compositeMatrix = getIdentityMatrix
  /\ history = <<>>
  /\ historyIndex = -1

\* the values a render of App() works with
Render(ops, state, matrix, log, index) ==
  [operations |-> ops, currentState |-> state, compositeMatrix |-> matrix,
   history |-> log, historyIndex |-> index]

\* the first render of a session
FirstRender == Render(<<>>, InitialVector, getIdentityMatrix, <<>>, -1)

\* a page opened without a gates parameter, no callback pending, and a
\* second session that has just been opened
InitPage ==
  /\ url = <<>>
  /\ timers = <<>>
  /\ twin = [session |-> FirstRender, phase |-> "first", call |-> <<>>]

(***************************************************************************)
(* Handlers.  history is 1-based here: the source's history[j] is          *)
(* history[j + 1]; historyIndex keeps the source's 0-based value.          *)
(***************************************************************************)
\* mutant of saveToHistory: the log is not cut at the pointer before the push
saveToHistoryNoTruncate(ops, state, matrix) ==
  LET newState == HistoryState(ops, state, matrix)
      pushed == Append(history, newState)
  IN  /\ history' = IF Len(pushed) > historyLimit THEN Tail(pushed) ELSE pushed
      /\ historyIndex' = Len(history') - 1

\* mutant of saveToHistory: setHistoryIndex(newHistory.length)
saveToHistoryIndexOffByOne(ops, state, matrix) ==
  LET newState == HistoryState(ops, state, matrix)
      sliced == SubSeq(history, 1, historyIndex + 1)
      pushed == Append(sliced, newState)
  IN  /\ history' = IF Len(pushed) > historyLimit THEN Tail(pushed) ELSE pushed
      /\ historyIndex' = Len(history')

\* mutant of saveToHistory: the oldest entry is never shifted out
saveToHistoryNoEvict(ops, state, matrix) ==
  LET newState == HistoryState(ops, state, matrix)
      sliced == SubSeq(history, 1, historyIndex + 1)
      pushed == Append(sliced, newState)
  IN  /\ history' = pushed
      /\ historyIndex' = Len(history') - 1

\* mutant of saveToHistory: the pointer is taken from the length before
\* the shift
saveToHistoryPointerBeforeShift(ops, state, matrix) ==
  LET newState == HistoryState(ops, state, matrix)
      sliced == SubSeq(history, 1, historyIndex + 1)
      pushed == Append(sliced, newState)
  IN  /\ history' = IF Len(pushed) > historyLimit THEN Tail(pushed) ELSE pushed
      /\ historyIndex' = Len(pushed) - 1

\* mutant of saveToHistory: when the log is over its capacity the entry
\* before the new one is taken out instead of the oldest
saveToHistoryEvictsPrevious(ops, state, matrix) ==
  LET newState == HistoryState(ops, state, matrix)
      sliced == SubSeq(history, 1, historyIndex + 1)
      pushed == Append(sliced, newState)
  IN  /\ history' = IF Len(pushed) > historyLimit
                    THEN Append(SubSeq(sliced, 1, Len(sliced) - 1), newState)
                    ELSE pushed
      /\ historyIndex' = Len(history') - 1

\* mutant of saveToHistory: the new snapshot takes the place of the entry at
\* the pointer
saveToHistoryOverwrites(ops, state, matrix) ==
  LET newState == HistoryState(ops, state, matrix)
      sliced == SubSeq(history, 1, historyIndex)
      pushed == Append(sliced, newState)
  IN  /\ history' = IF Len(pushed) > historyLimit THEN Tail(pushed) ELSE pushed
      /\ historyIndex' = Len(history') - 1

saveToHistory(ops, state, matrix) ==
  LET newState == HistoryState(ops, state, matrix)
      sliced == SubSeq(history, 1, historyIndex + 1)
      pushed == Append(sliced, newState)
  IN  /\ history' = IF Len(pushed) > historyLimit THEN Tail(pushed) ELSE pushed
      /\ historyIndex' = Len(history') - 1

\* mutant of AddGate: the composite is multiplied on the right
AddGateRightMultiply(gateName, id) ==
  /\ operations' = Append(operations, GateOperation(id, gateName))
  /\ currentState' = applyMatrix(GATES[gateName], currentState)
  /\ compositeMatrix' = multiplyMatrices(compositeMatrix, GATES[gateName])
  /\ saveToHistory(operations', currentState', compositeMatrix')
  /\ UNCHANGED historyLimit

\* The new triple is written first and handed to saveToHistory from the
\* primed variables, so that each value is computed once; the source passes
\* the same three values to saveToHistory and to the setters.
AddGate(gateName, id) ==
  /\ operations' = Append(operations, GateOperation(id, gateName))
  /\ currentState' = applyMatrix(GATES[gateName], currentState)
  /\ compositeMatrix' = multiplyMatrices(GATES[gateName], compositeMatrix)
  /\ saveToHistory(operations', currentState', compositeMatrix')
  /\ UNCHANGED historyLimit

\* mutant of Reset: setCompositeMatrix(initialMatrix) is missing
ResetKeepsMatrix ==
  /\ operations' = <<>>
  /\ currentState' = InitialVector
  /\ saveToHistory(operations', currentState', getIdentityMatrix)
  /\ UNCHANGED <<compositeMatrix, historyLimit>>

Reset ==
  /\ operations' = <<>>
  /\ currentState' = InitialVector
  /\ compositeMatrix' = getIdentityMatrix
  /\ saveToHistory(operations', currentState', compositeMatrix')
  /\ UNCHANGED historyLimit

\* mutant of Undo: restores history[historyIndex], the entry it leaves
UndoOffByOne ==
  IF historyIndex > 0
  THEN LET prevState == history[historyIndex + 1]
       IN  /\ historyIndex' = historyIndex - 1
           /\ operations' = prevState.operations
           /\ currentState' = prevState.currentState
           /\ compositeMatrix' = prevState.compositeMatrix
           /\ UNCHANGED <<history, historyLimit>>
  ELSE UNCHANGED progVars

\* mutant of Undo: at the first entry it steps before the log and shows the
\* empty circuit
UndoPastFirst ==
  IF historyIndex > 0
  THEN LET prevState == history[historyIndex]
       IN  /\ historyIndex' = historyIndex - 1
           /\ operations' = prevState.operations
           /\ currentState' = prevState.currentState
           /\ compositeMatrix' = prevState.compositeMatrix
           /\ UNCHANGED <<history, historyLimit>>
  ELSE IF historyIndex = 0
  THEN /\ historyIndex' = -1
       /\ operations' = <<>>
       /\ currentState' = InitialVector
       /\ compositeMatrix' = getIdentityMatrix
       /\ UNCHANGED <<history, historyLimit>>
  ELSE UNCHANGED progVars

Undo ==
  IF historyIndex > 0
  THEN LET prevState == history[historyIndex]
       IN  /\ historyIndex' = historyIndex - 1
           /\ operations' = prevState.operations
           /\ currentState' = prevState.currentState
           /\ compositeMatrix' = prevState.compositeMatrix
           /\ UNCHANGED <<history, historyLimit>>
  ELSE UNCHANGED progVars

\* mutant of Redo: the pointer moves and the triple stays
RedoKeepsTriple ==
  IF historyIndex < Len(history) - 1
  THEN /\ historyIndex' = historyIndex + 1
       /\ UNCHANGED <<operations, currentState, compositeMatrix, history,
                      historyLimit>>
  ELSE UNCHANGED progVars

\* mutant of Redo: drops the entries that stay ahead of the pointer
RedoDropsAhead ==
  IF historyIndex < Len(history) - 1
  THEN LET nextState == history[historyIndex + 2]
       IN  /\ historyIndex' = historyIndex + 1
           /\ operations' = nextState.operations
           /\ currentState' = nextState.currentState
           /\ compositeMatrix' = nextState.compositeMatrix
           /\ history' = SubSeq(history, 1, historyIndex + 2)
           /\ UNCHANGED historyLimit
  ELSE UNCHANGED progVars

Redo ==
  IF historyIndex < Len(history) - 1
  THEN LET nextState == history[historyIndex + 2]
       IN  /\ historyIndex' = historyIndex + 1
           /\ operations' = nextState.operations
           /\ currentState' = nextState.currentState
           /\ compositeMatrix' = nextState.compositeMatrix
           /\ UNCHANGED <<history, historyLimit>>
  ELSE UNCHANGED progVars

\* mutant of FilterOut: operations.filter(op => op.id > operationId)
RECURSIVE FilterOutBelow(_, _)
FilterOutBelow(ops, operationId) ==
  IF ops = <<>> THEN <<>>
  ELSE IF Head(ops).id > operationId
       THEN <<Head(ops)>> \o FilterOutBelow(Tail(ops), operationId)
       ELSE FilterOutBelow(Tail(ops), operationId)

\* operations.filter(op => op.id !== operationId)
RECURSIVE FilterOut(_, _)
FilterOut(ops, operationId) ==
  IF ops = <<>> THEN <<>>
  ELSE IF Head(ops).id # operationId
       THEN <<Head(ops)>> \o FilterOut(Tail(ops), operationId)
       ELSE FilterOut(Tail(ops), operationId)

\* for (let i = newOperations.length - 1; i >= 0; i--)
\*   newMatrix = multiplyMatrices(GATES[newOperations[i].gate], newMatrix)
\* i is the 1-based position still to be visited, m the value of newMatrix
RECURSIVE Recalculate(_, _, _)
Recalculate(newOperations, i, m) ==
  IF i < 1 THEN m
  ELSE Recalculate(newOperations, i - 1,
                   multiplyMatrices(GATES[newOperations[i].gate], m))

\* mutant of RemoveOperation: the recalculation starts from the current
\* composite matrix instead of the identity
RemoveOperationFromCurrent(operationId) ==
  /\ operations' = FilterOut(operations, operationId)
  /\ compositeMatrix' = Recalculate(operations', Len(operations'), compositeMatrix)
  /\ currentState' = applyMatrix(compositeMatrix', InitialVector)
  /\ saveToHistory(operations', currentState', compositeMatrix')
  /\ UNCHANGED historyLimit

RemoveOperation(operationId) ==
  /\ operations' = FilterOut(operations, operationId)
  /\ compositeMatrix' = Recalculate(operations', Len(operations'), getIdentityMatrix)
  /\ currentState' = applyMatrix(compositeMatrix', InitialVector)
  /\ saveToHistory(operations', currentState', compositeMatrix')
  /\ UNCHANGED historyLimit

(***************************************************************************)
(* The calls of the session, as an observer sees them: which handler ran,  *)
(* with which arguments, whether it repeats the call before it, the length *)
(* and pointer of the log it found, and the triple it left.  Spec and      *)
(* SpecLong keep the latest call only, SpecUndoRedo keeps them all.        *)
(***************************************************************************)
\* gate of a call that takes none; such a call carries the identifier 0,
\* which no operation has
NoGate == "-"

Call(op, gate, id) ==
  [op |-> op, gate |-> gate, id |-> id,
   repeat |-> /\ calls # <<>>
              /\ calls[Len(calls)].op = op
              /\ calls[Len(calls)].gate = gate
              /\ calls[Len(calls)].id = id,
   before |-> [length |-> Len(history), index |-> historyIndex],
   after |-> HistoryState(operations', currentState', compositeMatrix')]

Called(op, gate, id) == calls' = <<Call(op, gate, id)>>

Logged(op, gate, id) == calls' = Append(calls, Call(op, gate, id))

Mutations == {"addGate", "reset", "removeOperation"}

(***************************************************************************)
(* Spec: every handler, the gates of SpecGates, sessions whose log stays   *)
(* within MaxLog entries                                                   *)
(***************************************************************************)
Init ==
  /\ InitProgram
  /\ InitPage
  /\ historyLimit = HistoryLimitApp
  /\ calls = <<>>

CanRecord == historyIndex + 1 < MaxLog

\* two gates that do not commute, a third self-inverse one, and the T phase
SpecGates == {"H", "X", "Z", "T"}

DoAddGate ==
  \E g \in SpecGates :
    /\ CanRecord
    /\ AddGate(g, NewId(operations))
    /\ Called("addGate", g, NewId(operations))
    /\ UNCHANGED pageVars

DoReset ==
  CanRecord /\ Reset /\ Called("reset", NoGate, 0) /\ UNCHANGED pageVars

DoUndo == Undo /\ Called("undo", NoGate, 0) /\ UNCHANGED pageVars

DoRedo == Redo /\ Called("redo", NoGate, 0) /\ UNCHANGED pageVars

\* the identifier of an operation of the sequence, or one that none carries
DoRemoveOperation ==
  \E id \in IdsOf(operations) \cup {NewId(operations)} :
    /\ CanRecord
    /\ RemoveOperation(id)
    /\ Called("removeOperation", NoGate, id)
    /\ UNCHANGED pageVars

Next == DoAddGate \/ DoReset \/ DoUndo \/ DoRedo \/ DoRemoveOperation

Spec == Init /\ [][Next]_vars

(***************************************************************************)
(* SpecUndoRedo: a fresh session that calls addGate up to MaxAppends       *)
(* times, then undo (at most once per append), then redo (at most once per *)
(* undo); calls holds every call of the session.                           *)
(***************************************************************************)
NumCalls(op) == Cardinality({i \in 1..Len(calls) : calls[i].op = op})

SAddGate ==
  \E g \in GateNames :
    /\ Len(calls) < MaxAppends
    /\ NumCalls("addGate") = Len(calls)
    /\ AddGate(g, NewId(operations))
    /\ Logged("addGate", g, NewId(operations))
    /\ UNCHANGED pageVars

SUndo ==
  /\ NumCalls("redo") = 0
  /\ NumCalls("undo") < NumCalls("addGate")
  /\ Undo
  /\ Logged("undo", NoGate, 0)
  /\ UNCHANGED pageVars

SRedo ==
  /\ NumCalls("redo") < NumCalls("undo")
  /\ Redo
  /\ Logged("redo", NoGate, 0)
  /\ UNCHANGED pageVars

NextUndoRedo == SAddGate \/ SUndo \/ SRedo

SpecUndoRedo == Init /\ [][NextUndoRedo]_vars

(***************************************************************************)
(* SpecLong: either capacity of the log; the session appends H to the      *)
(* empty sequence and empties it again (by removeOperation or reset), with *)
(* undo and redo at any time, for as long as it likes.                     *)
(***************************************************************************)
InitLong ==
  /\ InitProgram
  /\ InitPage
  /\ historyLimit \in {HistoryLimitApp, HistoryLimitCopy}
  /\ calls = <<>>

LAddGate ==
  /\ operations = <<>>
  /\ AddGate("H", NewId(operations))
  /\ Called("addGate", "H", NewId(operations))
  /\ UNCHANGED pageVars

LRemoveOperation ==
  /\ operations # <<>>
  /\ RemoveOperation(operations[1].id)
  /\ Called("removeOperation", NoGate, operations[1].id)
  /\ UNCHANGED pageVars

LReset ==
  operations # <<>> /\ Reset /\ Called("reset", NoGate, 0) /\ UNCHANGED pageVars

NextLong == LAddGate \/ LRemoveOperation \/ LReset \/ DoUndo \/ DoRedo

SpecLong == InitLong /\ [][NextLong]_vars

(***************************************************************************)
(* SpecShare: sharing a sequence by address.  The session builds a         *)
(* sequence of up to MaxShared gates and shares it; the address is opened  *)
(* in a fresh session, or a fresh session is opened with an address typed  *)
(* by hand; the effect that runs once after the first render schedules one *)
(* timer callback per gate character, and the callbacks run in order.      *)
(* calls holds every call of the run.                                      *)
(***************************************************************************)
\* SpecShare: gates of the sequence that is shared
MaxShared == 2
\* SpecShare: characters of an address typed by hand
MaxUrl == 3

\* the characters of a gate identifier; "dg" stands for the dagger
GateChars(g) ==
  IF g = "Sdg" THEN <<"S", "dg">>
  ELSE IF g = "Tdg" THEN <<"T", "dg">>
  ELSE <<g>>

\* operations.map(op => op.gate).join('')
RECURSIVE gateSequence(_)
gateSequence(ops) ==
  IF ops = <<>> THEN <<>>
  ELSE GateChars(Head(ops).gate) \o gateSequence(Tail(ops))

\* gate in GATES, for a one-character string
InGATES(gate) == \E g \in GateNames : GateChars(g) = <<gate>>

\* gates.split('').filter(gate => gate in GATES)
gateArray(gates) == SelectSeq(gates, InGATES)

\* saveToHistory as the render r created it
saveToHistoryOf(r, ops, state, matrix) ==
  LET newState == HistoryState(ops, state, matrix)
      sliced == SubSeq(r.history, 1, r.historyIndex + 1)
      pushed == Append(sliced, newState)
  IN  /\ history' = IF Len(pushed) > historyLimit THEN Tail(pushed) ELSE pushed
      /\ historyIndex' = Len(history') - 1

\* addGate as the render r created it (useCallback keeps the values of r)
addGateOf(r, gateName, id) ==
  /\ operations' = Append(r.operations, GateOperation(id, gateName))
  /\ currentState' = applyMatrix(GATES[gateName], r.currentState)
  /\ compositeMatrix' = multiplyMatrices(GATES[gateName], r.compositeMatrix)
  /\ saveToHistoryOf(r, operations', currentState', compositeMatrix')
  /\ UNCHANGED historyLimit

\* characters of a typed address: three gate characters, the dagger and a
\* character that is no gate identifier
UrlChars == {"H", "X", "S", "dg", "h"}

InitShare ==
  /\ InitProgram
  /\ historyLimit = HistoryLimitApp
  /\ calls = <<>>
  /\ url \in UNION {[1..n -> UrlChars] : n \in 0..MaxUrl}
  /\ timers = <<>>
  /\ twin = [session |-> FirstRender, phase |-> "first", call |-> <<>>]

\* the effect of the first render: one timer per gate character of the
\* address, the i-th due after i * 150 ms
MountEffect ==
  /\ IF calls = <<>> THEN TRUE ELSE calls[Len(calls)].op = "open"
  /\ timers' = IF url # <<>> /\ Len(operations) = 0
                THEN gateArray(url) ELSE <<>>
  /\ UNCHANGED <<progVars, url, twin>>
  /\ Logged("mount", NoGate, 0)

\* the earliest pending callback runs: addGate of the first render
TimerFires ==
  /\ timers # <<>>
  /\ addGateOf(FirstRender, Head(timers), NewId(operations))
  /\ timers' = Tail(timers)
  /\ Logged("replay", Head(timers), NewId(operations))
  /\ UNCHANGED <<url, twin>>

\* the user adds a gate once the callbacks have run
ShAddGate ==
  \E g \in GateNames :
    /\ calls # <<>> /\ timers = <<>>
    /\ NumCalls("shareState") = 0
    /\ Len(operations) < MaxShared
    /\ AddGate(g, NewId(operations))
    /\ Logged("addGate", g, NewId(operations))
    /\ UNCHANGED pageVars

\* shareState hands the address of the sequence to the share sheet
ShareState ==
  /\ calls # <<>> /\ timers = <<>>
  /\ NumCalls("shareState") = 0
  /\ UNCHANGED <<progVars, pageVars>>
  /\ Logged("shareState", NoGate, 0)

\* the shared address is opened: a fresh session with that address
OpenShared ==
  /\ calls # <<>> /\ calls[Len(calls)].op = "shareState"
  /\ url' = gateSequence(operations)
  /\ operations' = <<>>
  /\ currentState' = InitialVector
  /\ compositeMatrix' = getIdentityMatrix
  /\ history' = <<>>
  /\ historyIndex' = -1
  /\ Logged("open", NoGate, 0)
  /\ UNCHANGED <<historyLimit, timers, twin>>

NextShare == MountEffect \/ TimerFires \/ ShAddGate \/ ShareState \/ OpenShared

SpecShare == InitShare /\ [][NextShare]_vars

(***************************************************************************)
(* SpecTwin: two sessions are given the same calls.  The session at work   *)
(* is in the program variables, the other one rests in twin.session.  A    *)
(* call is made on the first session (phase "first"), the sessions change  *)
(* places (phase "swap"), the same call is made on the second session      *)
(* (phase "second"), and they change places again (phase "back").  The     *)
(* first session gives its operations the least unused identifier, the     *)
(* second any of IdChoices unused ones.  A removal names the position of   *)
(* the operation to remove.                                                *)
(***************************************************************************)
\* SpecTwin: a mutation is taken only while the log it leaves has
\* <= MaxTwinLog entries
MaxTwinLog == 3
\* SpecTwin: number of unused identifiers a session can draw from
IdChoices == 2

TwinGates == {"H", "T"}

\* identifiers that Date.now() + Math.random() can give the new operation
TwinIds(ops) ==
  IF twin.phase = "first" THEN {NewId(ops)}
  ELSE {n \in 1..(Len(ops) + IdChoices) : n \notin IdsOf(ops)}

TwinCall(op, gate, position) == [op |-> op, gate |-> gate, position |-> position]

\* the call c can be made now: any call in phase "first", the call that the
\* other session got in phase "second"
Turn(c) ==
  /\ twin.phase \in {"first", "second"}
  /\ twin.phase = "second" => twin.call = c
  /\ (twin.phase = "first" /\ c.op \in Mutations)
       => historyIndex + 1 < MaxTwinLog

Advance(c) ==
  twin' = [twin EXCEPT !.phase = IF @ = "first" THEN "swap" ELSE "back",
                       !.call = c]

TAddGate ==
  \E g \in TwinGates, id \in TwinIds(operations) :
    /\ Turn(TwinCall("addGate", g, 0))
    /\ AddGate(g, id)
    /\ Called("addGate", g, id)
    /\ Advance(TwinCall("addGate", g, 0))
    /\ UNCHANGED <<url, timers>>

TRemoveOperation ==
  \E position \in 1..Len(operations) :
    /\ Turn(TwinCall("removeOperation", NoGate, position))
    /\ RemoveOperation(operations[position].id)
    /\ Called("removeOperation", NoGate, operations[position].id)
    /\ Advance(TwinCall("removeOperation", NoGate, position))
    /\ UNCHANGED <<url, timers>>

TReset ==
  /\ Turn(TwinCall("reset", NoGate, 0))
  /\ Reset
  /\ Called("reset", NoGate, 0)
  /\ Advance(TwinCall("reset", NoGate, 0))
  /\ UNCHANGED <<url, timers>>

TUndo ==
  /\ Turn(TwinCall("undo", NoGate, 0))
  /\ Undo
  /\ Called("undo", NoGate, 0)
  /\ Advance(TwinCall("undo", NoGate, 0))
  /\ UNCHANGED <<url, timers>>

TRedo ==
  /\ Turn(TwinCall("redo", NoGate, 0))
  /\ Redo
  /\ Called("redo", NoGate, 0)
  /\ Advance(TwinCall("redo", NoGate, 0))
  /\ UNCHANGED <<url, timers>>

\* the sessions change places
TSwap ==
  /\ twin.phase \in {"swap", "back"}
  /\ operations' = twin.session.operations
  /\ currentState' = twin.session.currentState
  /\ compositeMatrix' = twin.session.compositeMatrix
  /\ history' = twin.session.history
  /\ historyIndex' = twin.session.historyIndex
  /\ twin' = [session |-> Render(operations, currentState, compositeMatrix,
                                  history, historyIndex),
              phase |-> IF twin.phase = "swap" THEN "second" ELSE "first",
              call |-> twin.call]
  /\ UNCHANGED <<historyLimit, calls, url, timers>>

NextTwin == TAddGate \/ TRemoveOperation \/ TReset \/ TUndo \/ TRedo \/ TSwap

SpecTwin == Init /\ [][NextTwin]_vars

(***************************************************************************)
(* SpecMeasure: the measurement functions called on any vector of two      *)
(* amplitudes, normalized or not, the zero vector included; a run makes    *)
(* one call, and calls holds it with its argument and its result.          *)
(***************************************************************************)
\* SpecMeasure: the real and imaginary parts of an amplitude are 1/sqrt 2 or
\* an integer of magnitude <= MaxPart
MaxPart == 1

Parts == {RInt(n) : n \in -MaxPart..MaxPart} \cup {SQRT2_INV}

Amplitudes == {Complex(re, im) : re \in Parts, im \in Parts}

StateVectors == {<<a, b>> : a \in Amplitudes, b \in Amplitudes}

Measured(op, state, result) ==
  calls' = <<[op |-> op, state |-> state, result |-> result]>>

MCalculateProbabilities ==
  \E state \in StateVectors :
    /\ calls = <<>>
    /\ Measured("calculateProbabilities", state, calculateProbabilities(state))
    /\ UNCHANGED <<progVars, pageVars>>

MCalculateProbabilitiesFlag ==
  \E state \in StateVectors :
    /\ calls = <<>>
    /\ Measured("calculateProbabilities of part_000", state,
                calculateProbabilitiesFlag(state))
    /\ UNCHANGED <<progVars, pageVars>>

MCalculatePurity ==
  \E state \in StateVectors :
    /\ calls = <<>>
    /\ Measured("calculatePurity", state, calculatePurity(state))
    /\ UNCHANGED <<progVars, pageVars>>

NextMeasure ==
  MCalculateProbabilities \/ MCalculateProbabilitiesFlag \/ MCalculatePurity

SpecMeasure == Init /\ [][NextMeasure]_vars

(***************************************************************************)
(* SpecUnknown: addGate called with any string, a key of GATES or not,     *)
(* with undo and redo in between.  A call that raises is recorded with the *)
(* error it raised.                                                        *)
(***************************************************************************)
\* strings that are no key of GATES: a lower-case letter and a letter that
\* names no gate
UnknownGates == {"h", "Q"}

\* mutant of AddGateRaising: setOperations runs before the matrix is applied
AddGateRaisingLate(gateName, id) ==
  /\ gateName \notin DOMAIN GATES
  /\ operations' = Append(operations, GateOperation(id, gateName))
  /\ UNCHANGED <<currentState, compositeMatrix, history, historyIndex,
                 historyLimit>>

\* addGate when GATES[gateName] is undefined: applyMatrix reads
\* matrix[0][0] and raises a TypeError; by then addGate has built
\* newOperation and newOperations and has called no setter
AddGateRaising(gateName, id) ==
  /\ gateName \notin DOMAIN GATES
  /\ UNCHANGED progVars

UAddGate ==
  \E g \in SpecGates \cup UnknownGates :
    /\ CanRecord
    /\ IF g \in DOMAIN GATES
       THEN /\ AddGate(g, NewId(operations))
            /\ Called("addGate", g, NewId(operations))
       ELSE /\ AddGateRaising(g, NewId(operations))
            /\ calls' = <<Call("addGate", g, NewId(operations))
                            @@ [raised |-> "TypeError"]>>
    /\ UNCHANGED pageVars

NextUnknown == UAddGate \/ DoUndo \/ DoRedo

SpecUnknown == Init /\ [][NextUnknown]_vars

(***************************************************************************)
(* SpecStamp: the session of part_001, whose addGate gives the operation   *)
(* the identifier Date.now().toString().  Identifiers are milliseconds:    *)
(* the clock has moved on since the latest operation was made, or it has   *)
(* not.                                                                    *)
(***************************************************************************)
\* SpecStamp: the session ends within MaxStamp milliseconds that make an
\* operation
MaxStamp == 3

StampGates == {"H", "X"}

\* the identifiers of the operations of the sequence and of the log
KnownIds ==
  IdsOf(operations)
    \cup UNION {IdsOf(history[j].operations) : j \in 1..Len(history)}

\* Date.now(): the millisecond of the latest operation, or the next one
DateNow ==
  IF KnownIds = {} THEN {1}
  ELSE LET latest == CHOOSE n \in KnownIds : \A m \in KnownIds : m <= n
       IN  {latest, latest + 1} \cap 1..MaxStamp

PAddGate ==
  \E g \in StampGates, id \in DateNow :
    /\ CanRecord
    /\ AddGate(g, id)
    /\ Called("addGate", g, id)
    /\ UNCHANGED pageVars

PRemoveOperation ==
  \E id \in IdsOf(operations) :
    /\ CanRecord
    /\ RemoveOperation(id)
    /\ Called("removeOperation", NoGate, id)
    /\ UNCHANGED pageVars

NextStamp == PAddGate \/ PRemoveOperation \/ DoUndo \/ DoRedo

SpecStamp == Init /\ [][NextStamp]_vars

(***************************************************************************)
(* SpecRestore: a few calls of any handler, all of them kept, in a fresh   *)
(* session or in one whose log is full: the session has appended H and     *)
(* reset, by turns, as many times as the log has room.  SpecLong reaches   *)
(* that state (FullLogReached).                                            *)
(***************************************************************************)
\* SpecRestore: the session makes at most MaxRestore calls
MaxRestore == 4

RestoreGates == {"H", "X"}

\* the triple addGate('H') leaves in the initial state
HTriple ==
  HistoryState(<<GateOperation(NewId(<<>>), "H")>>,
               applyMatrix(GATES["H"], InitialVector),
               multiplyMatrices(GATES["H"], getIdentityMatrix))

\* the log after addGate('H') and reset by turns, limit calls in all
FullLog(limit) ==
  [j \in 1..limit |-> IF j % 2 = 1 THEN HTriple ELSE InitialTriple]

InitFull ==
  /\ operations = <<>>
  /\ currentState = InitialVector
  /\ compositeMatrix = getIdentityMatrix
  /\ history = FullLog(historyLimit)
  /\ historyIndex = historyLimit - 1

InitRestore ==
  /\ historyLimit \in {HistoryLimitApp, HistoryLimitCopy}
  /\ InitProgram \/ InitFull
  /\ InitPage
  /\ calls = <<>>

CanCall == Len(calls) < MaxRestore

RAddGate ==
  \E g \in RestoreGates :
    /\ CanCall
    /\ AddGate(g, NewId(operations))
    /\ Logged("addGate", g, NewId(operations))
    /\ UNCHANGED pageVars

RRemoveOperation ==
  \E id \in IdsOf(operations) :
    /\ CanCall
    /\ RemoveOperation(id)
    /\ Logged("removeOperation", NoGate, id)
    /\ UNCHANGED pageVars

RReset ==
  CanCall /\ Reset /\ Logged("reset", NoGate, 0) /\ UNCHANGED pageVars

RUndo == CanCall /\ Undo /\ Logged("undo", NoGate, 0) /\ UNCHANGED pageVars

RRedo == CanCall /\ Redo /\ Logged("redo", NoGate, 0) /\ UNCHANGED pageVars

NextRestore == RAddGate \/ RRemoveOperation \/ RReset \/ RUndo \/ RRedo

SpecRestore == InitRestore /\ [][NextRestore]_vars

(***************************************************************************)
(* SpecEvict: on a full log, a few mutations, each of which shifts the     *)
(* oldest entry out, and then undo for as long as it takes effect and a    *)
(* few times more; all calls are kept.                                     *)
(***************************************************************************)
\* SpecEvict: the session makes at most MaxEvictions mutations
MaxEvictions == 2

\* SpecEvict: undo is called at most MaxIdle times at the first entry
MaxIdle == 2

InitEvict ==
  /\ historyLimit \in {HistoryLimitApp, HistoryLimitCopy}
  /\ InitFull
  /\ InitPage
  /\ calls = <<>>

\* no undo yet, and room for one more mutation
CanEvict == Len(calls) < MaxEvictions /\ NumCalls("undo") = 0

\* the calls of undo that found the pointer at the first entry
IdleUndos ==
  {i \in 1..Len(calls) : calls[i].op = "undo" /\ calls[i].before.index = 0}

EAddGate ==
  \E g \in RestoreGates :
    /\ CanEvict
    /\ AddGate(g, NewId(operations))
    /\ Logged("addGate", g, NewId(operations))
    /\ UNCHANGED pageVars

ERemoveOperation ==
  \E id \in IdsOf(operations) :
    /\ CanEvict
    /\ RemoveOperation(id)
    /\ Logged("removeOperation", NoGate, id)
    /\ UNCHANGED pageVars

EReset ==
  CanEvict /\ Reset /\ Logged("reset", NoGate, 0) /\ UNCHANGED pageVars

EUndo ==
  /\ calls # <<>>
  /\ historyIndex > 0 \/ Cardinality(IdleUndos) < MaxIdle
  /\ Undo
  /\ Logged("undo", NoGate, 0)
  /\ UNCHANGED pageVars

NextEvict == EAddGate \/ ERemoveOperation \/ EReset \/ EUndo

SpecEvict == InitEvict /\ [][NextEvict]_vars

(***************************************************************************)
(* Properties of the composition engine                                    *)
(***************************************************************************)
LastCall == calls[Len(calls)]

GatesOf(ops) == [i \in 1..Len(ops) |-> ops[i].gate]

\* G_n * ... * G_1 for the sequence [G_1 .. G_n], the identity when empty
RECURSIVE ProductOf(_)
ProductOf(ops) ==
  IF ops = <<>> THEN getIdentityMatrix
  ELSE multiplyMatrices(GATES[ops[Len(ops)].gate],
                        ProductOf(SubSeq(ops, 1, Len(ops) - 1)))

\* C1: in every reachable state the composite matrix is the product of the
\* gate matrices of the current sequence, most recently added gate leftmost
\* (identity when the sequence is empty).
CompositeIsProduct == compositeMatrix = ProductOf(operations)

\* C2: in every reachable state the state vector is the composite matrix
\* applied to the initial vector (1, 0).
StateIsCompositeOnInitial ==
  currentState = applyMatrix(compositeMatrix, InitialVector)

StateIsCompositeOnInitial_witness ==
  /\ calls # <<>>
  /\ LastCall.op = "addGate"
  /\ Len(operations) >= 2
  /\ currentState # InitialVector
  /\ compositeMatrix[1][2] # compositeMatrix[2][1]

\* Z*H and Z*H*(1, 0), written out
ZH == << <<Complex(SQRT2_INV, RInt(0)), Complex(SQRT2_INV, RInt(0))>>,
         <<Complex(RNeg(SQRT2_INV), RInt(0)), Complex(SQRT2_INV, RInt(0))>> >>

ZHVector == <<Complex(SQRT2_INV, RInt(0)), Complex(RNeg(SQRT2_INV), RInt(0))>>

\* C3: a call of addGate(g) appends one operation for g to the sequence and
\* left-multiplies the state vector and the composite matrix by the registry
\* matrix of g; so the product of the sequence is preserved by appends, and
\* appending Z to the sequence [H] gives composite Z*H and state
\* (1/sqrt 2, -1/sqrt 2).
AppendLeftMultiplies ==
  [][calls'[Len(calls')].op = "addGate" =>
       LET g == calls'[Len(calls')].gate
           id == calls'[Len(calls')].id
       IN  /\ operations' = Append(operations, GateOperation(id, g))
           /\ currentState' = applyMatrix(GATES[g], currentState)
           /\ compositeMatrix' = multiplyMatrices(GATES[g], compositeMatrix)
           /\ compositeMatrix = ProductOf(operations)
                => compositeMatrix' = ProductOf(operations')
           /\ (g = "Z" /\ GatesOf(operations) = <<"H">>
                 /\ compositeMatrix = GATES["H"]
                 /\ currentState = applyMatrix(GATES["H"], InitialVector))
                => (compositeMatrix' = ZH /\ currentState' = ZHVector)]_vars

AppendLeftMultiplies_witness ==
  /\ calls # <<>>
  /\ LastCall.op = "addGate"
  /\ GatesOf(operations) = <<"H", "Z">>
  /\ compositeMatrix = ZH
  /\ currentState = ZHVector

\* C4: removeOperation with an identifier that no operation of the sequence
\* carries leaves the sequence, the state vector and the composite matrix
\* unchanged.
RemoveAbsentIsNoOp ==
  [][(/\ calls'[Len(calls')].op = "removeOperation"
      /\ calls'[Len(calls')].id \notin IdsOf(operations))
       => UNCHANGED <<operations, currentState, compositeMatrix>>]_vars

\* C5: a second removeOperation(id) right after a removeOperation(id) leaves
\* the sequence, the state vector and the composite matrix as the first one
\* left them.
RemoveTwiceSameAsOnce ==
  [][(/\ calls'[Len(calls')].op = "removeOperation"
      /\ calls'[Len(calls')].repeat)
       => UNCHANGED <<operations, currentState, compositeMatrix>>]_vars

\* the first of the two removals took an operation out of the sequence
RemoveTwiceSameAsOnce_witness ==
  /\ calls # <<>>
  /\ LastCall.op = "removeOperation"
  /\ LastCall.repeat
  /\ historyIndex >= 2
  /\ LastCall.id \in IdsOf(history[historyIndex - 1].operations)
  /\ LastCall.id \notin IdsOf(operations)

\* C6: the session starts with the triple (empty sequence, (1, 0), identity)
\* and every call of reset puts the triple back to it.
ResetRestoresInitial ==
  /\ operations = <<>>
  /\ currentState = <<CInt(1, 0), CInt(0, 0)>>
  /\ compositeMatrix = << <<CInt(1, 0), CInt(0, 0)>>, <<CInt(0, 0), CInt(1, 0)>> >>
  /\ [][calls'[Len(calls')].op = "reset" =>
          /\ operations' = <<>>
          /\ currentState' = <<CInt(1, 0), CInt(0, 0)>>
          /\ compositeMatrix' =
               << <<CInt(1, 0), CInt(0, 0)>>, <<CInt(0, 0), CInt(1, 0)>> >>]_vars

\* reset was called on a sequence of two gates with a non-identity composite
ResetRestoresInitial_witness ==
  /\ calls # <<>>
  /\ LastCall.op = "reset"
  /\ historyIndex >= 1
  /\ Len(history[historyIndex].operations) = 2
  /\ history[historyIndex].compositeMatrix # getIdentityMatrix
  /\ Triple = InitialTriple

\* C8: when entries lie ahead of the pointer (an undo took effect), a call
\* of addGate/removeOperation/reset leaves the log as the entries up to the
\* pointer followed by the one new snapshot, so the entries that were ahead
\* are gone; and a redo called right after an addGate/removeOperation/reset
\* changes neither the triple, nor the pointer, nor the log.
DiscardOnBranch ==
  /\ [][(/\ calls'[Len(calls')].op \in Mutations
         /\ historyIndex < Len(history) - 1)
          => /\ Len(history') = historyIndex + 2
             /\ historyIndex' = historyIndex + 1
             /\ SubSeq(history', 1, historyIndex + 1)
                  = SubSeq(history, 1, historyIndex + 1)
             /\ history'[historyIndex + 2]
                  = HistoryState(operations', currentState', compositeMatrix')]_vars
  /\ [][(/\ calls # <<>>
         /\ calls[Len(calls)].op \in Mutations
         /\ calls'[Len(calls')].op = "redo")
          => UNCHANGED progVars]_vars

\* an addGate found two entries ahead of the pointer and discarded them
DiscardOnBranch_witness ==
  /\ calls # <<>>
  /\ LastCall.op = "addGate"
  /\ LastCall.before.index = 0
  /\ LastCall.before.length = 3
  /\ Len(history) = 2
  /\ historyIndex = 1

\* C9: when no eviction is needed, a call of addGate/removeOperation/reset
\* leaves the log as the entries up to the old pointer followed by one
\* snapshot of the resulting triple, with the pointer at that last entry.
RecordAppendsSnapshot ==
  [][(/\ calls'[Len(calls')].op \in Mutations
      /\ historyIndex + 2 <= historyLimit)
       => /\ history' = Append(SubSeq(history, 1, historyIndex + 1),
                               HistoryState(operations', currentState',
                                            compositeMatrix'))
          /\ historyIndex' = Len(history') - 1]_vars

RecordAppendsSnapshot_witness ==
  /\ calls # <<>>
  /\ LastCall.op = "removeOperation"
  /\ LastCall.before.length = 2
  /\ LastCall.before.index = 1
  /\ Len(history) = 3
  /\ historyIndex = 2
  /\ history[3] = Triple
  /\ history[3] # history[2]

\* C7: in a fresh session, after n >= 1 calls of addGate and then k <= n-1
\* calls of undo the triple is the one the (n-k)-th addGate left; after k
\* calls of redo more it is the one the n-th addGate left.
UndoRedoRestores ==
  LET n == NumCalls("addGate")
      k == NumCalls("undo")
      j == NumCalls("redo")
  IN  (n >= 1 /\ k <= n - 1) =>
        /\ j = 0 => Triple = calls[n - k].after
        /\ j = k => Triple = calls[n].after

\* three appends with three different outcomes, two undos, two redos
UndoRedoRestores_witness ==
  /\ Len(calls) = 7
  /\ NumCalls("addGate") = 3
  /\ NumCalls("undo") = 2
  /\ NumCalls("redo") = 2
  /\ calls[5].after = calls[1].after
  /\ calls[1].after.compositeMatrix # calls[2].after.compositeMatrix
  /\ calls[1].after.compositeMatrix # calls[3].after.compositeMatrix
  /\ calls[2].after.compositeMatrix # calls[3].after.compositeMatrix
  /\ Triple = calls[3].after

UndoRedoAtEnds ==
  /\ [][calls'[Len(calls')].op = "undo" =>
          IF history = <<>> \/ historyIndex = 0
          THEN UNCHANGED progVars
          ELSE /\ historyIndex' = historyIndex - 1
               /\ HistoryState(operations', currentState', compositeMatrix')
                    = history[historyIndex' + 1]]_vars
  /\ [][calls'[Len(calls')].op = "redo" =>
          IF history = <<>> \/ historyIndex = Len(history) - 1
          THEN UNCHANGED progVars
          ELSE /\ historyIndex' = historyIndex + 1
               /\ HistoryState(operations', currentState', compositeMatrix')
                    = history[historyIndex' + 1]]_vars

\* undo was called with the pointer at the first of three entries, which
\* earlier undos had brought there, and the triple is still the first entry
UndoRedoAtEnds_witness ==
  /\ calls # <<>>
  /\ LastCall.op = "undo"
  /\ LastCall.before.index = 0
  /\ LastCall.before.length = 3
  /\ historyIndex = 0
  /\ Len(history) = 3
  /\ Triple = history[1]
  /\ Triple # history[3]

\* C12: a call of undo or redo leaves every entry of the log as it was, and
\* the log changes only in calls of addGate, removeOperation and reset.
UndoRedoKeepLog ==
  /\ [][calls'[Len(calls')].op \in {"undo", "redo"} => history' = history]_vars
  /\ [][history' # history => calls'[Len(calls')].op \in Mutations]_vars

\* a redo took effect with one entry still ahead of the pointer
UndoRedoKeepLog_witness ==
  /\ calls # <<>>
  /\ LastCall.op = "redo"
  /\ LastCall.before.index = 0
  /\ historyIndex = 1
  /\ Len(history) = 3
  /\ history[2] # history[3]
  /\ Triple = history[2]

(***************************************************************************)
(* Properties of sharing by address                                        *)
(***************************************************************************)
\* addGate called from the user interface is the addGate of the latest
\* render
AddGateOfLatestRender ==
  [][calls'[Len(calls')].op = "addGate" =>
       addGateOf(Render(operations, currentState, compositeMatrix,
                        history, historyIndex),
                 calls'[Len(calls')].gate, calls'[Len(calls')].id)]_vars

\* the sequence [G_1 .. G_n] of gate identifiers as operations
OperationsOf(gates) == [i \in 1..Len(gates) |-> GateOperation(i, gates[i])]

\* the decoding of the address has run to its end and nothing else was called
Decoded ==
  /\ calls # <<>>
  /\ LastCall.op \in {"mount", "replay"}
  /\ timers = <<>>

\* C13: once a fresh session has decoded its address, the sequence is the
\* characters of the address that are gate identifiers, in their order, and
\* the composite matrix and the state vector are those of one append per
\* such character in that order.
DecodeReplaysAll ==
  Decoded =>
    /\ GatesOf(operations) = gateArray(url)
    /\ compositeMatrix = ProductOf(OperationsOf(gateArray(url)))
    /\ currentState = applyMatrix(ProductOf(OperationsOf(gateArray(url))),
                                  InitialVector)

\* the identifiers of one character among the gates of a sequence
SingleCharacterGates(ops) ==
  LET IsSingle(g) == Len(GateChars(g)) = 1
  IN  SelectSeq(GatesOf(ops), IsSingle)

\* the sequence that was shared, when the address of the session came from
\* shareState
SharedOperations ==
  LET k == CHOOSE i \in 1..Len(calls) : calls[i].op = "shareState"
  IN  calls[k].after.operations

\* C14: the string shareState builds is the concatenation, in order, of the
\* one-character gate identifiers of the sequence (S-dagger and T-dagger
\* left out), and a fresh session that has decoded this string holds these
\* one-character gates in order.
ShareRoundTrip ==
  /\ (calls # <<>> /\ LastCall.op = "shareState")
       => gateSequence(operations) = SingleCharacterGates(operations)
  /\ (Decoded /\ NumCalls("open") = 1)
       => GatesOf(operations) = SingleCharacterGates(SharedOperations)

(***************************************************************************)
(* Determinism                                                             *)
(***************************************************************************)
\* C15: two sessions that were given the same calls of addGate(gate),
\* removeOperation(operation at a position), reset, undo and redo hold the
\* same gate sequence, state vector and composite matrix, whatever
\* identifiers their operations were given.
SameCallsSameOutcome ==
  twin.phase = "first" =>
    /\ GatesOf(operations) = GatesOf(twin.session.operations)
    /\ currentState = twin.session.currentState
    /\ compositeMatrix = twin.session.compositeMatrix

\* both sessions removed the first of two operations, which carry different
\* identifiers in the two sessions
SameCallsSameOutcome_witness ==
  /\ twin.phase = "first"
  /\ twin.call # <<>>
  /\ twin.call.op = "removeOperation"
  /\ twin.call.position = 1
  /\ Len(operations) = 1
  /\ IdsOf(operations) # IdsOf(twin.session.operations)
  /\ compositeMatrix # getIdentityMatrix

(***************************************************************************)
(* Properties of the gate registry and of the validation                   *)
(***************************************************************************)
SelfInverseGates == {"H", "X", "Y", "Z"}

\* C16: for each of H, X, Y, Z the registry matrix times itself is the
\* identity, and a fresh session in which the gate was appended twice has
\* the identity as composite matrix and (1, 0) as state vector.
TwiceIsIdentity ==
  /\ \A g \in SelfInverseGates :
       multiplyMatrices(GATES[g], GATES[g])
         = << <<CInt(1, 0), CInt(0, 0)>>, <<CInt(0, 0), CInt(1, 0)>> >>
  /\ (/\ Len(calls) = 2
      /\ NumCalls("addGate") = 2
      /\ calls[1].gate = calls[2].gate
      /\ calls[1].gate \in SelfInverseGates)
       => /\ compositeMatrix
              = << <<CInt(1, 0), CInt(0, 0)>>, <<CInt(0, 0), CInt(1, 0)>> >>
          /\ currentState = <<CInt(1, 0), CInt(0, 0)>>

\* Y was appended twice; after the first append neither the composite nor
\* the state vector was the initial one
TwiceIsIdentity_witness ==
  /\ Len(calls) = 2
  /\ NumCalls("addGate") = 2
  /\ calls[1].gate = "Y"
  /\ calls[2].gate = "Y"
  /\ calls[1].after.compositeMatrix # getIdentityMatrix
  /\ calls[1].after.currentState # InitialVector
  /\ compositeMatrix = getIdentityMatrix
  /\ currentState = InitialVector

\* GATE_PROPERTIES of part_000
GATE_PROPERTIES(g) ==
  IF g \in {"H", "X", "Y", "Z"}
  THEN [unitary |-> TRUE, hermitian |-> TRUE, selfInverse |-> TRUE]
  ELSE [unitary |-> TRUE, hermitian |-> FALSE, selfInverse |-> FALSE]

\* getGateProperties of App.tsx; the superscript 2 is written ^2 and the
\* dagger dg
getGateProperties(gate) ==
  CASE gate = "H" -> {"Unitary", "Hermitian", "Creates superposition",
                      "Self-inverse (H^2 = I)"}
    [] gate = "X" -> {"Unitary", "Hermitian", "Pauli gate",
                      "Self-inverse (X^2 = I)", "Bit flip"}
    [] gate = "Y" -> {"Unitary", "Hermitian", "Pauli gate",
                      "Self-inverse (Y^2 = I)", "Bit + phase flip"}
    [] gate = "Z" -> {"Unitary", "Hermitian", "Pauli gate",
                      "Self-inverse (Z^2 = I)", "Phase flip"}
    [] gate = "S" -> {"Unitary", "Phase gate", "S^2 = Z", "Quarter turn"}
    [] gate = "T" -> {"Unitary", "Phase gate", "T^2 = S", "Eighth turn"}
    [] gate = "Sdg" -> {"Unitary", "Inverse of S gate", "Sdg S = I"}
    [] gate = "Tdg" -> {"Unitary", "Inverse of T gate", "Tdg T = I"}
    [] OTHER -> {"Unitary"}

\* mutant of Dagger: the entries are conjugated in place
DaggerInPlace(m) ==
  << <<conjugate(m[1][1]), conjugate(m[1][2])>>,
     <<conjugate(m[2][1]), conjugate(m[2][2])>> >>

\* the conjugate transpose of a matrix
Dagger(m) ==
  << <<conjugate(m[1][1]), conjugate(m[2][1])>>,
     <<conjugate(m[1][2]), conjugate(m[2][2])>> >>

\* C17: isUnitary is true of each of the eight registry matrices, and the
\* conjugate transpose of each times the matrix is the identity, entry by
\* entry; so the session that appended one gate shows a unitary composite.
GatesAreUnitary ==
  /\ \A g \in GateNames :
       /\ isUnitary(GATES[g])
       /\ multiplyMatrices(Dagger(GATES[g]), GATES[g])
            = << <<CInt(1, 0), CInt(0, 0)>>, <<CInt(0, 0), CInt(1, 0)>> >>
  /\ (Len(calls) = 1 /\ calls[1].op = "addGate")
       => (compositeMatrix = GATES[calls[1].gate] /\ isUnitary(compositeMatrix))

\* the session appended T-dagger, whose matrix is not its own conjugate
\* transpose
GatesAreUnitary_witness ==
  /\ Len(calls) = 1
  /\ calls[1].op = "addGate"
  /\ calls[1].gate = "Tdg"
  /\ compositeMatrix = GATES["Tdg"]
  /\ Dagger(compositeMatrix) # compositeMatrix
  /\ isUnitary(compositeMatrix)

\* C18: in a session of appends that started from (1, 0), isNormalized is
\* true of the state vector after each append: the squared magnitudes of
\* its two amplitudes add up to 1.
AppendsKeepNormalized ==
  \A i \in 1..Len(calls) :
    calls[i].op = "addGate" =>
      /\ isNormalized(calls[i].after.currentState)
      /\ RAdd(magnitudeSquared(calls[i].after.currentState[1]),
              magnitudeSquared(calls[i].after.currentState[2])) = RInt(1)

\* three appends left a state vector with two nonzero amplitudes, one of
\* them not real
AppendsKeepNormalized_witness ==
  /\ Len(calls) = 3
  /\ NumCalls("addGate") = 3
  /\ currentState = calls[3].after.currentState
  /\ currentState[1] # CInt(0, 0)
  /\ currentState[2].im # RInt(0)
  /\ currentState[2].re # RInt(0)
  /\ isNormalized(currentState)

PurityIsOne ==
  /\ QEq(calculatePurity(currentState), Quot(RInt(1), RInt(1)))
  /\ QEq(purityShown(calculateProbabilities(currentState)),
         Quot(RInt(1), RInt(1)))

\* squared magnitudes 0, 1/2 or 1 with sum 1: a basis state or an equal
\* superposition
HalfOrWhole(state) ==
  /\ isNormalized(state)
  /\ magnitudeSquared(state[1]) \in {RInt(0), [p |-> 1, q |-> 0, k |-> 1], RInt(1)}

\* C21: in the session that appended H to the fresh state (1, 0), the state
\* vector is (1/sqrt 2, 1/sqrt 2), the probabilities are 1/2 and 1/2 and the
\* entropy is 1; and the entropy of a state vector with a zero amplitude,
\* such as (1, 0), is 0.  Both for calculateEntropy and for the Entropy line.
EntropyOfHAndBasis ==
  /\ GatesOf(operations) = <<"H">> =>
       /\ currentState = <<Complex(SQRT2_INV, RInt(0)), Complex(SQRT2_INV, RInt(0))>>
       /\ QEq(calculateProbabilities(currentState).prob0, Quot(RInt(1), RInt(2)))
       /\ QEq(calculateProbabilities(currentState).prob1, Quot(RInt(1), RInt(2)))
       /\ calculateEntropy(currentState) = Fix(100000, 0)
       /\ entropyShown(calculateProbabilities(currentState)) = Fix(100000, 0)
  /\ (HalfOrWhole(currentState)
        /\ (currentState[1] = CInt(0, 0) \/ currentState[2] = CInt(0, 0))) =>
       /\ calculateEntropy(currentState) = Fix(0, 0)
       /\ entropyShown(calculateProbabilities(currentState)) = Fix(0, 0)

(***************************************************************************)
(* Properties of error handling                                            *)
(***************************************************************************)
\* C22: a call of addGate with a string that is no key of the registry
\* raises an error and leaves the sequence, the state vector, the composite
\* matrix and the history log with its pointer unchanged; a call with a key
\* of the registry raises none.
UnknownGateFailsFast ==
  [][calls'[Len(calls')].op = "addGate" =>
       IF calls'[Len(calls')].gate \in GateNames
       THEN "raised" \notin DOMAIN calls'[Len(calls')]
       ELSE /\ "raised" \in DOMAIN calls'[Len(calls')]
            /\ UNCHANGED <<operations, currentState, compositeMatrix,
                           history, historyIndex>>]_vars

\* addGate('Q') was called on a sequence of two gates whose log has an
\* entry ahead of the pointer
UnknownGateFailsFast_witness ==
  /\ calls # <<>>
  /\ LastCall.op = "addGate"
  /\ LastCall.gate = "Q"
  /\ "raised" \in DOMAIN LastCall
  /\ Len(operations) = 2
  /\ Len(history) = 3
  /\ historyIndex = 1

(***************************************************************************)
(* Properties of the operation identifiers                                 *)
(***************************************************************************)
\* C23: the operations of the sequence carry pairwise distinct identifiers
\* in every reachable state, and removeOperation with the identifier of an
\* operation of the sequence takes out exactly that one operation, the
\* others staying in their order.
DistinctIdentifiers ==
  /\ [](\A i \in 1..Len(operations), j \in 1..Len(operations) :
          operations[i].id = operations[j].id => i = j)
  /\ [][(/\ calls'[Len(calls')].op = "removeOperation"
         /\ calls'[Len(calls')].id \in IdsOf(operations))
          => \E i \in 1..Len(operations) :
               /\ operations[i].id = calls'[Len(calls')].id
               /\ operations' = SubSeq(operations, 1, i - 1)
                                  \o SubSeq(operations, i + 1, Len(operations))]_vars

(***************************************************************************)
(* Properties of the history log                                           *)
(***************************************************************************)
\* C24: no call changes an entry of the log: a call of undo or redo leaves
\* the log as it is, and after a call of addGate, removeOperation or reset
\* the entries before the new snapshot are entries of the old log, unchanged
\* and in their order; an entry that is gone was ahead of the pointer, or it
\* was the first entry of a log that stays at its capacity.
SnapshotsAreKept ==
  [][LET new == IF calls'[Len(calls')].op \in Mutations THEN 1 ELSE 0
         kept == Len(history') - new
     IN  \E d \in {0, 1} :
           /\ \A j \in 1..kept : history'[j] = history[j + d]
           /\ d = 1 => (history # <<>> /\ Len(history') = historyLimit)
           /\ \A j \in 1..Len(history) :
                j \notin (d + 1)..(kept + d)
                  => (j > historyIndex + 1 \/ (j = 1 /\ d = 1))
           /\ new = 0 => history' = history]_vars

\* a reset found the 50th entry of a full log ahead of the pointer and put
\* its snapshot in that entry's place, the 49 entries before it staying
SnapshotsAreKept_witness ==
  /\ calls # <<>>
  /\ LastCall.op = "reset"
  /\ historyLimit = HistoryLimitCopy
  /\ LastCall.before.length = 50
  /\ LastCall.before.index = 48
  /\ Len(history) = 50
  /\ historyIndex = 49
  /\ history[49] # history[50]

(***************************************************************************)
(* Properties of the descriptions of the gates                             *)
(***************************************************************************)
\* the descriptions of the gate g agree with its matrix
DescriptionsAgree(g) ==
  LET G == GATES[g]
      I == << <<CInt(1, 0), CInt(0, 0)>>, <<CInt(0, 0), CInt(1, 0)>> >>
      shown == getGateProperties(g)
  IN  /\ GATE_PROPERTIES(g).hermitian <=> (Dagger(G) = G)
      /\ GATE_PROPERTIES(g).selfInverse <=> (multiplyMatrices(G, G) = I)
      /\ GATE_PROPERTIES(g).selfInverse <=> (g \in {"H", "X", "Y", "Z"})
      /\ GATE_PROPERTIES(g).unitary <=> isUnitary(G)
      /\ "Hermitian" \in shown <=> (Dagger(G) = G)
      /\ (\E t \in shown : t \in {"Self-inverse (H^2 = I)",
                                    "Self-inverse (X^2 = I)",
                                    "Self-inverse (Y^2 = I)",
                                    "Self-inverse (Z^2 = I)"})
           <=> (multiplyMatrices(G, G) = I)
      /\ "S^2 = Z" \in shown => multiplyMatrices(G, G) = GATES["Z"]
      /\ "T^2 = S" \in shown => multiplyMatrices(G, G) = GATES["S"]
      /\ "Sdg S = I" \in shown => multiplyMatrices(G, GATES["S"]) = I
      /\ "Tdg T = I" \in shown => multiplyMatrices(G, GATES["T"]) = I

\* C25: for the gate that addGate has just been called with, and so for
\* each of the eight, the registry flags it hermitian exactly when its
\* matrix is its own conjugate transpose and self-inverse exactly when its
\* matrix times itself is the identity (H, X, Y, Z and no other), and the
\* identities shown with it hold: S*S = Z, T*T = S, Sdg*S = I, Tdg*T = I.
DescriptionsAgreeWithMatrices ==
  [][calls'[Len(calls')].op = "addGate"
       => DescriptionsAgree(calls'[Len(calls')].gate)]_vars

\* T was appended twice, which left S as the composite, and then S-dagger,
\* which left the identity
DescriptionsAgreeWithMatrices_witness ==
  /\ Len(calls) = 3
  /\ NumCalls("addGate") = 3
  /\ calls[1].gate = "T"
  /\ calls[2].gate = "T"
  /\ calls[3].gate = "Sdg"
  /\ calls[2].after.compositeMatrix = GATES["S"]
  /\ compositeMatrix = getIdentityMatrix
  /\ "Sdg S = I" \in getGateProperties(calls[3].gate)
  /\ ~ GATE_PROPERTIES(calls[3].gate).hermitian

(***************************************************************************)
(* Properties of the pointer into the log                                  *)
(***************************************************************************)
\* C26: whenever the log is non-empty the pointer is at one of its entries
\* and the triple is the entry at the pointer; the pointer is -1 exactly
\* while the log is empty.
PointerNamesTriple ==
  /\ history # <<>> => /\ 0 <= historyIndex
                       /\ historyIndex < Len(history)
                       /\ Triple = history[historyIndex + 1]
  /\ historyIndex = -1 <=> history = <<>>

\* redo has brought the pointer to the second of three different entries
PointerNamesTriple_witness ==
  /\ calls # <<>>
  /\ LastCall.op = "redo"
  /\ LastCall.before.index = 0
  /\ Len(history) = 3
  /\ historyIndex = 1
  /\ Triple = history[2]
  /\ history[2] # history[1]
  /\ history[2] # history[3]

\* C27: a fresh session has nothing recorded, the initial triple included;
\* the first addGate/removeOperation/reset leaves a log of exactly one
\* entry, the triple it produced, with the pointer at 0; undo on that log
\* changes nothing, so it does not bring the initial triple back.
InitialTripleNotRecorded ==
  /\ [](calls = <<>> => history = <<>> /\ historyIndex = -1)
  /\ [](history = <<>> => Triple = InitialTriple)
  /\ [][(history = <<>> /\ calls'[Len(calls')].op \in Mutations)
          => /\ history' = <<HistoryState(operations', currentState',
                                          compositeMatrix')>>
             /\ historyIndex' = 0]_vars
  /\ [][(Len(history) = 1 /\ calls'[Len(calls')].op = "undo")
          => /\ UNCHANGED progVars
             /\ HistoryState(operations', currentState', compositeMatrix')
                  = history[1]]_vars

\* undo was called after the first append, and the gate is still there
InitialTripleNotRecorded_witness ==
  /\ calls # <<>>
  /\ LastCall.op = "undo"
  /\ LastCall.before.length = 1
  /\ LastCall.before.index = 0
  /\ Len(history) = 1
  /\ historyIndex = 0
  /\ Len(operations) = 1
  /\ Triple # InitialTriple

(***************************************************************************)
(* Properties of undo and redo right after a mutation                      *)
(***************************************************************************)
\* the triple the i-th call of the session found
TripleBefore(i) == IF i = 1 THEN InitialTriple ELSE calls[i - 1].after

\* the full log of SpecRestore is a state of the program: SpecLong reaches
\* it, at either capacity
FullLogReached ==
  /\ history = FullLog(historyLimit)
  /\ historyIndex = historyLimit - 1
  /\ Triple = InitialTriple

\* C28: when addGate/removeOperation/reset found a non-empty log, an undo
\* called right after it leaves the triple that held before it, and a redo
\* called right after that undo leaves the triple the mutation produced,
\* whether or not the mutation shifted the oldest entry out.
UndoRestoresBefore ==
  \A i \in 1..(Len(calls) - 1) :
    (/\ calls[i].op \in Mutations
     /\ calls[i].before.length > 0
     /\ calls[i + 1].op = "undo")
      => /\ calls[i + 1].after = TripleBefore(i)
         /\ (i + 2 <= Len(calls) /\ calls[i + 2].op = "redo")
              => calls[i + 2].after = calls[i].after

\* on a full log: H appended, then removed, which shifted an entry out a
\* second time; undo brought H back and redo took it out again
UndoRestoresBefore_witness ==
  /\ Len(calls) = 4
  /\ calls[1].op = "addGate"
  /\ calls[2].op = "removeOperation"
  /\ calls[2].before.length = historyLimit
  /\ calls[2].before.index = historyLimit - 1
  /\ calls[3].op = "undo"
  /\ calls[3].after = calls[1].after
  /\ calls[3].after # calls[2].after
  /\ calls[4].op = "redo"
  /\ Triple = calls[2].after
  /\ Len(history) = historyLimit

(***************************************************************************)
(* Validity of every state of the session                                  *)
(***************************************************************************)
\* C29: in every state of the session, whichever handler led to it, the
\* composite matrix is unitary and the squared magnitudes of the state
\* vector add up to 1; so the state vector is not the zero vector and
\* calculateProbabilities divides by a total that is not zero.
AlwaysUnitaryAndNormalized ==
  /\ isUnitary(compositeMatrix)
  /\ isNormalized(currentState)
  /\ currentState # <<CInt(0, 0), CInt(0, 0)>>
  /\ calculateProbabilities(currentState).normalizationFactor # RInt(0)
  /\ calculateProbabilities(currentState).prob0.den # RInt(0)
  /\ calculateProbabilities(currentState).prob1.den # RInt(0)

\* a removal that left a gate in the sequence was undone, and the state
\* vector that came back has an amplitude that is not real
AlwaysUnitaryAndNormalized_witness ==
  /\ calls # <<>>
  /\ LastCall.op = "undo"
  /\ Len(history) = 3
  /\ historyIndex = 1
  /\ history[3].operations # <<>>
  /\ Len(history[3].operations) < Len(history[2].operations)
  /\ Triple = history[2]
  /\ currentState[1] # CInt(0, 0)
  /\ currentState[2].im # RInt(0)
  /\ compositeMatrix # getIdentityMatrix

(***************************************************************************)
(* Properties of eviction                                                  *)
(***************************************************************************)
\* the calls of undo that moved the pointer
EffectiveUndos ==
  {i \in 1..Len(calls) : calls[i].op = "undo" /\ calls[i].before.index > 0}

\* C30: a call of addGate/removeOperation/reset that finds the log full
\* with the pointer at its last entry leaves the old entries but the
\* oldest, in their order, followed by the snapshot of the new triple, with
\* the pointer still at capacity - 1; of the undos that follow, at most
\* capacity - 1 move the pointer.
EvictionDropsOldest ==
  /\ [][(/\ calls'[Len(calls')].op \in Mutations
          /\ Len(history) = historyLimit
          /\ historyIndex = historyLimit - 1)
           => /\ history' = Append(Tail(history),
                                   HistoryState(operations', currentState',
                                                compositeMatrix'))
              /\ Len(history') = historyLimit
              /\ historyIndex' = historyLimit - 1]_vars
  /\ [](Cardinality(EffectiveUndos) <= historyLimit - 1)
  /\ [](IdleUndos # {} => Cardinality(EffectiveUndos) = historyLimit - 1)

\* App.tsx: a removal shifted the oldest entry out; 99 undos moved the
\* pointer to the first entry, which was the third before the session
\* began, and two more changed nothing
EvictionDropsOldest_witness ==
  /\ historyLimit = HistoryLimitApp
  /\ Len(calls) = 103
  /\ calls[1].op = "addGate"
  /\ calls[2].op = "removeOperation"
  /\ calls[2].before.length = 100
  /\ calls[2].before.index = 99
  /\ Cardinality(EffectiveUndos) = 99
  /\ Cardinality(IdleUndos) = 2
  /\ Len(history) = 100
  /\ historyIndex = 0
  /\ Triple = FullLog(100)[3]
  /\ history[99] = calls[1].after
  /\ history[100] = calls[2].after

====
